---- MODULE Spec2Model ----
(***************************************************************************)
(* Model of src/src/lib.rs: HashableHashSet / HashableHashMap and their    *)
(* order-independent `Hash` implementations over the thread-local BUFFER.  *)
(*                                                                         *)
(* A hasher is modelled by the sequence of u64 words written into it; its  *)
(* digest (`finish`) is a fixed function of that sequence, truncated to    *)
(* HashBits bits.  A HashSet<V> is a HashMap<V, ()>, so both containers    *)
(* are a set of entries [k, v]; a set's entries carry the unit value.      *)
(***************************************************************************)
EXTENDS Integers, Sequences, FiniteSets, TLC

\* ------------------------------------------------------------------ bounds
NumLeaves == 2
MaxNodes == 5
MaxTupleNodes == 4
MaxThreadNodes == 3
MaxCmpNodes == 3
HashBits == 4

Threads == {1, 2}

RECURSIVE Pow2(_)
Pow2(n) == IF n = 0 THEN 1 ELSE 2 * Pow2(n - 1)

Mod == Pow2(HashBits)

\* ------------------------------------------------------------------ values
\* An element of type V (or K): a u64 leaf, the unit value, a value whose
\* Hash impl panics, or a nested container.
Leaf(n) == [kind |-> "leaf", val |-> n, items |-> {}, s |-> 0]
Unit == [kind |-> "unit", val |-> 0, items |-> {}, s |-> 0]
Poison == [kind |-> "poison", val |-> 0, items |-> {}, s |-> 0]

\* HashableHashSet<V, S>(HashSet<V, S>): entries and the state s of the
\* hasher-builder S.
HashableHashSet(es, s) == [kind |-> "set", val |-> 0, items |-> es, s |-> s]

\* HashableHashMap<K, V, S>(HashMap<K, V, S>)
HashableHashMap(es, s) == [kind |-> "map", val |-> 0, items |-> es, s |-> s]

IsContainer(x) == x.kind \in {"set", "map"}

\* PartialEq::eq delegates to the wrapped container: same length and every
\* entry of self found in other; the hasher-builder is not compared.
Eq(a, b) ==
    /\ a.kind = b.kind
    /\ Cardinality(a.items) = Cardinality(b.items)
    /\ \A e \in a.items : e \in b.items

RECURSIVE Size(_), SizeOfEntries(_)
Size(x) ==
    IF IsContainer(x) THEN 1 + SizeOfEntries(x.items)
    ELSE IF x.kind = "unit" THEN 0 ELSE 1
SizeOfEntries(es) ==
    IF es = {} THEN 0
    ELSE LET e == CHOOSE e \in es : TRUE
         IN Size(e.k) + Size(e.v) + SizeOfEntries(es \ {e})

RECURSIVE HasPoison(_)
HasPoison(x) ==
    \/ x.kind = "poison"
    \/ \E e \in x.items : HasPoison(e.k) \/ HasPoison(e.v)

\* Families of entry sets over E with distinct keys and at most `budget`
\* nodes, built one entry at a time.
RECURSIVE EntrySets(_, _, _)
EntrySets(E, budget, n) ==
    IF n = 0 THEN {{}}
    ELSE LET P == EntrySets(E, budget, n - 1)
         IN P \cup {pe[1] \cup {pe[2]} : pe \in
                      {qe \in P \X E :
                          /\ \A o \in qe[1] : o.k # qe[2].k
                          /\ SizeOfEntries(qe[1]) + Size(qe[2].k) + Size(qe[2].v)
                               <= budget}}

\* HashableHashSet<V> values of at most n nodes with elements drawn from V.
SetsOf(V, n) ==
    LET E == {[k |-> x, v |-> Unit] : x \in {y \in V : Size(y) <= n - 1}}
    IN {HashableHashSet(es, 0) : es \in EntrySets(E, n - 1, n - 1)}

\* HashableHashMap<K, V> values of at most n nodes.
MapsOf(K, V, n) ==
    LET E == {e \in [k : K, v : V] : Size(e.k) + Size(e.v) <= n - 1}
    IN {HashableHashMap(es, 0) : es \in EntrySets(E, n - 1, n - 1)}

Leaves == {Leaf(n) : n \in 1..NumLeaves}
Atoms == Leaves \cup {Poison}

\* The element types the containers are instantiated at.
SetOfAtoms == SetsOf(Atoms, MaxNodes)
MapOfAtoms == MapsOf(Atoms, Atoms, MaxNodes)
SetOfSets == SetsOf(SetOfAtoms, MaxNodes)
SetOfSetsOfSets == SetsOf(SetOfSets, MaxNodes)
SetOfMaps == SetsOf(MapOfAtoms, MaxNodes)
MapOfMaps == MapsOf(MapOfAtoms, Atoms, MaxNodes)
MapOfSets == MapsOf(SetOfAtoms, SetOfAtoms, MaxNodes)

Inputs ==
    SetOfAtoms \cup MapOfAtoms \cup SetOfSets \cup SetOfSetsOfSets
        \cup SetOfMaps \cup MapOfMaps \cup MapOfSets

\* ------------------------------------------------------------------ hashers
\* ahash::AHasher::default(): a hasher with fixed keys and nothing written.
AHasherDefault == <<>>

\* Hasher::write_u64
WriteU64(h, w) == Append(h, w % Mod)

\* Hasher::finish: the digest of the words written so far, a folded
\* multiply per word as in ahash's fallback hasher, at HashBits bits.
Fold(p) == ((p % Mod) + (p \div Mod)) % Mod

RECURSIVE Absorb(_, _)
Absorb(st, h) ==
    IF h = <<>> THEN st
    ELSE Absorb(Fold((st + Head(h) + 1) * 5), Tail(h))

Finish(h) == Fold((Absorb(3, h) * 7) + Len(h))

\* ------------------------------------------------------------------ buffers
\* RefCell<Vec<u64>>: the vector and the cell's borrow flag.
NewRefCell == [data |-> <<>>, borrowed |-> FALSE]

\* RefCell::try_borrow_mut succeeds iff the cell is not borrowed.
TryBorrowMut(cell) == ~cell.borrowed

\* buffer.try_borrow_mut().unwrap_or_else(|_| fallback.borrow_mut()):
\* which buffer the computation gets; RefCell::borrow_mut panics on a cell
\* that is already borrowed.
AcquirePanicking(cell, fallback) ==
    IF TryBorrowMut(cell) THEN "shared" ELSE "panic"

AcquireAliased(cell, fallback) == "shared"

Acquire(cell, fallback) ==
    IF TryBorrowMut(cell) THEN "shared"
    ELSE IF TryBorrowMut(fallback) THEN "fallback"
    ELSE "panic"

\* Vec::clear
ClearKeeping(data) == data

ClearToZero(data) == <<0>>

Clear(data) == <<>>

RECURSIVE Insert(_, _)
Insert(w, sorted) ==
    IF sorted = <<>> THEN <<w>>
    ELSE IF w <= Head(sorted) THEN <<w>> \o sorted
    ELSE <<Head(sorted)>> \o Insert(w, Tail(sorted))

RECURSIVE SortAsc(_)
SortAsc(data) ==
    IF data = <<>> THEN <<>> ELSE Insert(Head(data), SortAsc(Tail(data)))

\* slice::sort_unstable on u64
SortUnsorted(data) == data

SortUnstable(data) == SortAsc(data)

\* Drop of the RefMut guard: the cell is no longer borrowed.
ReleaseLeaking(cell) == cell

Release(cell) == [cell EXCEPT !.borrowed = FALSE]

\* thread_local!: the BUFFER instance a thread sees.
BufferOfProcess(t) == 1

BufferOf(t) == t

\* `let mut inner_hasher = ahash::AHasher::default()`: the per-item hasher
\* of a container c; the container's own hasher-builder c.s plays no part.
InnerHasherSeeded(c) == <<c.s + 1>>

InnerHasher(c) == AHasherDefault

\* What follows `k.hash(&mut inner_hasher)`: a map entry feeds its value
\* into the same hasher, a set element is finished at once.
AfterKeyOnly(c) == "fin"

AfterKey(c) == IF c.kind = "map" THEN "val" ELSE "fin"

\* Vec::extend pushes the next pre-hash at the end of the buffer.
ExtendDedup(data, w) ==
    IF \E n \in 1..Len(data) : data[n] = w THEN data ELSE Append(data, w)

Extend(data, w) == Append(data, w)

\* self.0.iter(): the entries in some order the container picks.
Iter(c) ==
    LET n == Cardinality(c.items)
    IN {ord \in [1..n -> c.items] : \A a, b \in 1..n : a # b => ord[a] # ord[b]}

\* ------------------------------------------------------------------ programs
\* A program is the sequence of `hash(&value)` calls a thread makes; each
\* value is a tuple of containers, hashed component by component into the
\* call's hasher.
Reseed(c) == [c EXCEPT !.s = 1]
Wrap(c) == HashableHashSet({[k |-> c, v |-> Unit]}, 0)

\* The single container a one-element set of containers holds.
Unwrap(a) ==
    IF a.kind = "set" /\ Cardinality(a.items) = 1
    THEN {e.k : e \in {d \in a.items : IsContainer(d.k)}}
    ELSE {}

CmpInputs == {c \in Inputs : Size(c) <= MaxCmpNodes}

\* The second call hashes the same container again, an equal one built with
\* another hasher-builder, the container nested in a set (or the one nested
\* in it), or another small container of the same type.
Seconds(a) ==
    {a, Reseed(a), Wrap(a)} \cup Unwrap(a)
        \cup (IF a \in CmpInputs THEN {b \in CmpInputs : b.kind = a.kind} ELSE {})

PairPrograms == UNION {{<<<<a>>, <<b>>>> : b \in Seconds(a)} : a \in Inputs}

TupleArgs ==
    LET S == SetsOf(Leaves, MaxTupleNodes)
    IN {t \in S \X S : Size(t[1]) + Size(t[2]) <= MaxTupleNodes}

TuplePrograms == {<<t, u>> : t \in TupleArgs, u \in TupleArgs}

ThreadInputs == {c \in Inputs : Size(c) <= MaxThreadNodes}

VARIABLES
    calls,    \* per thread: the values its program hashes, in order
    res,      \* per thread: the outcome of each finished call
    pc,       \* per thread: "idle", "run", "unwind" or "done"
    err,      \* per thread: the panic being unwound, or "none"
    hasher,   \* per thread: the hasher of the call in progress
    arg,      \* per thread: the tuple component hashed next
    iter,     \* per thread: the order the last outermost container iterated in
    stack,    \* per thread: the active Hash::hash computations, outermost first
    BUFFER    \* per BUFFER instance: the RefCell<Vec<u64>>

vars == <<calls, res, pc, err, hasher, arg, iter, stack, BUFFER>>

Top(t) == stack[t][Len(stack[t])]
CurCall(t) == calls[t][Len(res[t]) + 1]

\* The part of entry f.ord[f.i] the computation f hashes next.
Comp(f) == IF f.phase = "key" THEN f.ord[f.i].k ELSE f.ord[f.i].v

\* The vector a computation of thread t works on.
Data(t, f) == IF f.buf = "shared" THEN BUFFER[BufferOf(t)].data ELSE f.fallback.data

NextPhase(f) == IF f.phase = "key" THEN AfterKey(f.c) ELSE "fin"

InitCommon ==
    /\ res = [t \in Threads |-> <<>>]
    /\ pc = [t \in Threads |-> IF calls[t] = <<>> THEN "done" ELSE "idle"]
    /\ err = [t \in Threads |-> "none"]
    /\ hasher = [t \in Threads |-> AHasherDefault]
    /\ arg = [t \in Threads |-> 1]
    /\ iter = [t \in Threads |-> <<>>]
    /\ stack = [t \in Threads |-> <<>>]
    /\ BUFFER = [t \in Threads |-> NewRefCell]

\* One thread runs two calls in a row; the other threads run nothing.
Init ==
    /\ \E p \in PairPrograms \cup TuplePrograms :
          calls = [t \in Threads |-> IF t = 1 THEN p ELSE <<>>]
    /\ InitCommon

\* Every thread runs one call.
InitThreads ==
    /\ \E a \in ThreadInputs : \E b \in {a} \cup {c \in ThreadInputs : Size(c) <= 2} :
          calls = [t \in Threads |-> IF t = 1 THEN <<<<a>>>> ELSE <<<<b>>>>]
    /\ InitCommon

\* fn hash<T: Hash>(value: &T): a fresh default hasher for the call.
CallHash(t) ==
    /\ pc[t] = "idle"
    /\ pc' = [pc EXCEPT ![t] = "run"]
    /\ hasher' = [hasher EXCEPT ![t] = AHasherDefault]
    /\ arg' = [arg EXCEPT ![t] = 1]
    /\ UNCHANGED <<calls, res, err, iter, stack, BUFFER>>

\* Entry of Hash::hash for a container: BUFFER.with, the fallback cell, the
\* choice of buffer, buffer.clear() and the start of the iteration.
Enter(t) ==
    /\ pc[t] = "run"
    /\ \/ stack[t] = <<>> /\ arg[t] <= Len(CurCall(t))
       \/ stack[t] # <<>> /\ Top(t).phase \in {"key", "val"}
                          /\ IsContainer(Comp(Top(t)))
    /\ LET c == IF stack[t] = <<>> THEN CurCall(t)[arg[t]] ELSE Comp(Top(t))
           h == IF stack[t] = <<>> THEN hasher[t] ELSE Top(t).inner
           b == BufferOf(t)
           fallback == NewRefCell
           got == Acquire(BUFFER[b], fallback)
       IN IF got = "panic"
          THEN /\ pc' = [pc EXCEPT ![t] = "unwind"]
               /\ err' = [err EXCEPT ![t] = "borrow"]
               /\ UNCHANGED <<stack, BUFFER>>
          ELSE /\ \E ord \in Iter(c) :
                     stack' = [stack EXCEPT ![t] = Append(@,
                        [c |-> c, ord |-> ord, i |-> 1,
                         phase |-> IF c.items = {} THEN "sort" ELSE "key",
                         buf |-> got,
                         fallback |-> IF got = "fallback"
                                      THEN [data |-> Clear(fallback.data),
                                            borrowed |-> TRUE]
                                      ELSE fallback,
                         inner |-> InnerHasher(c),
                         hasher |-> h,
                         j |-> 1])]
               /\ BUFFER' = IF got = "shared"
                            THEN [BUFFER EXCEPT ![b] =
                                    [data |-> Clear(@.data), borrowed |-> TRUE]]
                            ELSE BUFFER
               /\ UNCHANGED <<pc, err>>
    /\ UNCHANGED <<calls, res, hasher, arg, iter>>

\* k.hash / v.hash of a u64 (one write_u64) or of the unit value (no write).
HashLeaf(t) ==
    /\ pc[t] = "run"
    /\ stack[t] # <<>>
    /\ Top(t).phase \in {"key", "val"}
    /\ Comp(Top(t)).kind \in {"leaf", "unit"}
    /\ LET f == Top(t)
           v == Comp(f)
       IN stack' = [stack EXCEPT ![t][Len(stack[t])] =
                      [f EXCEPT !.inner = IF v.kind = "leaf"
                                          THEN WriteU64(f.inner, v.val)
                                          ELSE f.inner,
                                !.phase = NextPhase(f)]]
    /\ UNCHANGED <<calls, res, pc, err, hasher, arg, iter, BUFFER>>

\* k.hash / v.hash of an element whose Hash impl panics.
PanicElem(t) ==
    /\ pc[t] = "run"
    /\ stack[t] # <<>>
    /\ Top(t).phase \in {"key", "val"}
    /\ Comp(Top(t)).kind = "poison"
    /\ pc' = [pc EXCEPT ![t] = "unwind"]
    /\ err' = [err EXCEPT ![t] = "elem"]
    /\ UNCHANGED <<calls, res, hasher, arg, iter, stack, BUFFER>>

\* inner_hasher.finish() is pushed; the next item gets a fresh hasher.
Push(t) ==
    /\ pc[t] = "run"
    /\ stack[t] # <<>>
    /\ Top(t).phase = "fin"
    /\ LET f == Top(t)
           d == Extend(Data(t, f), Finish(f.inner))
           g == [f EXCEPT !.i = f.i + 1,
                          !.inner = InnerHasher(f.c),
                          !.phase = IF f.i + 1 > Len(f.ord) THEN "sort" ELSE "key"]
       IN IF f.buf = "shared"
          THEN /\ BUFFER' = [BUFFER EXCEPT ![BufferOf(t)].data = d]
               /\ stack' = [stack EXCEPT ![t][Len(stack[t])] = g]
          ELSE /\ stack' = [stack EXCEPT ![t][Len(stack[t])] =
                              [g EXCEPT !.fallback.data = d]]
               /\ UNCHANGED BUFFER
    /\ UNCHANGED <<calls, res, pc, err, hasher, arg, iter>>

\* buffer.sort_unstable()
Sort(t) ==
    /\ pc[t] = "run"
    /\ stack[t] # <<>>
    /\ Top(t).phase = "sort"
    /\ LET f == Top(t)
           d == SortUnstable(Data(t, f))
           g == [f EXCEPT !.phase = "write", !.j = 1]
       IN IF f.buf = "shared"
          THEN /\ BUFFER' = [BUFFER EXCEPT ![BufferOf(t)].data = d]
               /\ stack' = [stack EXCEPT ![t][Len(stack[t])] = g]
          ELSE /\ stack' = [stack EXCEPT ![t][Len(stack[t])] =
                              [g EXCEPT !.fallback.data = d]]
               /\ UNCHANGED BUFFER
    /\ UNCHANGED <<calls, res, pc, err, hasher, arg, iter>>

\* One round of `for v in &*buffer { hasher.write_u64(*v) }`.
Write(t) ==
    /\ pc[t] = "run"
    /\ stack[t] # <<>>
    /\ Top(t).phase = "write"
    /\ Top(t).j <= Len(Data(t, Top(t)))
    /\ LET f == Top(t)
       IN stack' = [stack EXCEPT ![t][Len(stack[t])] =
                      [f EXCEPT !.hasher = WriteU64(f.hasher, Data(t, f)[f.j]),
                                !.j = f.j + 1]]
    /\ UNCHANGED <<calls, res, pc, err, hasher, arg, iter, BUFFER>>

\* End of Hash::hash: the guard and the fallback are dropped and the caller
\* goes on with the hasher the computation wrote into.
Return(t) ==
    /\ pc[t] = "run"
    /\ stack[t] # <<>>
    /\ Top(t).phase = "write"
    /\ Top(t).j > Len(Data(t, Top(t)))
    /\ LET f == Top(t)
           rest == SubSeq(stack[t], 1, Len(stack[t]) - 1)
       IN /\ BUFFER' = IF f.buf = "shared"
                       THEN [BUFFER EXCEPT ![BufferOf(t)] = Release(@)]
                       ELSE BUFFER
          /\ IF rest = <<>>
             THEN /\ stack' = [stack EXCEPT ![t] = <<>>]
                  /\ hasher' = [hasher EXCEPT ![t] = f.hasher]
                  /\ arg' = [arg EXCEPT ![t] = @ + 1]
                  /\ iter' = [iter EXCEPT ![t] = f.ord]
             ELSE /\ LET p == rest[Len(rest)]
                     IN stack' = [stack EXCEPT ![t] =
                                    [rest EXCEPT ![Len(rest)] =
                                       [p EXCEPT !.inner = f.hasher,
                                                 !.phase = NextPhase(p)]]]
                  /\ UNCHANGED <<hasher, arg, iter>>
    /\ UNCHANGED <<calls, res, pc, err>>

\* hasher.finish(): the call's digest.
FinishCall(t) ==
    /\ pc[t] = "run"
    /\ stack[t] = <<>>
    /\ arg[t] > Len(CurCall(t))
    /\ res' = [res EXCEPT ![t] = Append(@,
                 [h |-> hasher[t], fp |-> Finish(hasher[t]), err |-> "none",
                  ord |-> iter[t]])]
    /\ pc' = [pc EXCEPT ![t] = IF Len(res[t]) + 1 < Len(calls[t])
                               THEN "idle" ELSE "done"]
    /\ UNCHANGED <<calls, err, hasher, arg, iter, stack, BUFFER>>

\* A panic unwinds one Hash::hash computation: its locals are dropped.
Unwind(t) ==
    /\ pc[t] = "unwind"
    /\ stack[t] # <<>>
    /\ BUFFER' = IF Top(t).buf = "shared"
                 THEN [BUFFER EXCEPT ![BufferOf(t)] = Release(@)]
                 ELSE BUFFER
    /\ stack' = [stack EXCEPT ![t] = SubSeq(@, 1, Len(@) - 1)]
    /\ UNCHANGED <<calls, res, pc, err, hasher, arg, iter>>

\* The panic leaves the call; the thread goes on with its next call.
Caught(t) ==
    /\ pc[t] = "unwind"
    /\ stack[t] = <<>>
    /\ res' = [res EXCEPT ![t] = Append(@,
                 [h |-> <<>>, fp |-> 0, err |-> err[t], ord |-> <<>>])]
    /\ err' = [err EXCEPT ![t] = "none"]
    /\ pc' = [pc EXCEPT ![t] = IF Len(res[t]) + 1 < Len(calls[t])
                               THEN "idle" ELSE "done"]
    /\ UNCHANGED <<calls, hasher, arg, iter, stack, BUFFER>>

Next ==
    \/ \E t \in Threads : CallHash(t)
    \/ \E t \in Threads : Enter(t)
    \/ \E t \in Threads : HashLeaf(t)
    \/ \E t \in Threads : PanicElem(t)
    \/ \E t \in Threads : Push(t)
    \/ \E t \in Threads : Sort(t)
    \/ \E t \in Threads : Write(t)
    \/ \E t \in Threads : Return(t)
    \/ \E t \in Threads : FinishCall(t)
    \/ \E t \in Threads : Unwind(t)
    \/ \E t \in Threads : Caught(t)

Spec == Init /\ [][Next]_vars

SpecThreads == InitThreads /\ [][Next]_vars

\* ------------------------------------------------------------------ the hash as a function
\* What Hash::hash of a value appends to a hasher h, computed by structural
\* recursion: a leaf writes itself, the unit value writes nothing, and a
\* container writes its entries' pre-hashes in ascending order.
RECURSIVE HashInto(_, _), PreHashes(_, _)
HashInto(h, v) ==
    IF v.kind = "leaf" THEN WriteU64(h, v.val)
    ELSE IF IsContainer(v) THEN h \o SortAsc(PreHashes(v, v.items))
    ELSE h

\* The pre-hash of entry e of container c.
EntryPreHash(c, e) ==
    Finish(IF c.kind = "map"
           THEN HashInto(HashInto(AHasherDefault, e.k), e.v)
           ELSE HashInto(AHasherDefault, e.k))

PreHashes(c, es) ==
    IF es = {} THEN <<>>
    ELSE LET e == CHOOSE d \in es : TRUE
         IN <<EntryPreHash(c, e)>> \o PreHashes(c, es \ {e})

\* The hasher a computation was handed when it started.
EntryHasher(t, i) == IF i = 1 THEN hasher[t] ELSE stack[t][i - 1].inner

\* The computation on top of thread t's stack has written its whole buffer.
Written(t) ==
    /\ pc[t] = "run"
    /\ stack[t] # <<>>
    /\ Top(t).phase = "write"
    /\ Top(t).j > Len(Data(t, Top(t)))

\* Thread t finished two calls, each of one container, without a panic.
TwoSingles(t) ==
    /\ Len(res[t]) = 2
    /\ Len(calls[t][1]) = 1
    /\ Len(calls[t][2]) = 1
    /\ res[t][1].err = "none"
    /\ res[t][2].err = "none"

First(t) == calls[t][1][1]
Second(t) == calls[t][2][1]

\* ------------------------------------------------------------------ claims

\* C1: permutation invariance.  Hashing the same collection twice, whatever
\* order each of the two iterations yields its entries in, writes the same
\* words to identically initialised hashers and gives the same digest.
C1_PermutationInvariance ==
    \A t \in Threads :
        (TwoSingles(t) /\ First(t) = Second(t))
            => /\ res[t][1].h = res[t][2].h
               /\ res[t][1].fp = res[t][2].fp

C1_Witness ==
    \E t \in Threads :
        /\ TwoSingles(t)
        /\ First(t) = Second(t)
        /\ Cardinality(First(t).items) >= 2
        /\ res[t][1].ord # res[t][2].ord
        /\ res[t][1].fp = res[t][2].fp

\* C2: Hash/Eq consistency.  Containers that are equal under the delegated
\* equality hash to the same digest, also when their hasher-builders differ.
C2_EqualityConsistency ==
    \A t \in Threads :
        (TwoSingles(t) /\ Eq(First(t), Second(t)))
            => res[t][1].fp = res[t][2].fp

C2_Witness ==
    \E t \in Threads :
        /\ TwoSingles(t)
        /\ Eq(First(t), Second(t))
        /\ First(t).s # Second(t).s
        /\ First(t).items # {}
        /\ res[t][1].fp = res[t][2].fp

\* C3: nesting safety.  No hash computation ever panics on the buffer: a
\* computation that starts while the shared buffer is borrowed runs on a
\* fallback, a call on elements whose own hash does not panic ends with a
\* digest, and a thread that has not finished can always take a step.
C3_NestingSafety ==
    /\ \A t \in Threads :
          /\ err[t] # "borrow"
          /\ \A n \in 1..Len(res[t]) :
                /\ res[t][n].err # "borrow"
                /\ (\A m \in 1..Len(calls[t][n]) : ~HasPoison(calls[t][n][m]))
                      => res[t][n].err = "none"
          /\ \A i \in 2..Len(stack[t]) : stack[t][i].buf = "fallback"
    /\ (\E t \in Threads : pc[t] # "done") => ENABLED Next

C3_Witness ==
    \E t \in Threads :
        /\ pc[t] = "run"
        /\ Len(stack[t]) = 3
        /\ stack[t][1].buf = "shared"
        /\ stack[t][2].buf = "fallback"
        /\ stack[t][3].buf = "fallback"
        /\ Len(stack[t][1].ord) >= 2

\* C4: idempotence and path independence.  The same instance hashed twice
\* (same iteration order, the second time on the buffer the first call left
\* behind) gives the same words and digest; and a container feeds the same
\* words to its hasher when it is hashed as the outermost container (on the
\* shared buffer) and when it is hashed nested in a set (on a fallback).
C4_Idempotence ==
    \A t \in Threads :
        /\ (TwoSingles(t) /\ First(t) = Second(t) /\ res[t][1].ord = res[t][2].ord)
              => res[t][1] = res[t][2]
        /\ (TwoSingles(t) /\ Second(t) = Wrap(First(t)))
              => res[t][2].h = <<res[t][1].fp>>
        /\ (TwoSingles(t) /\ First(t) = Wrap(Second(t)))
              => res[t][1].h = <<res[t][2].fp>>
        /\ (/\ Written(t)
            /\ Len(stack[t]) = 2
            /\ Len(res[t]) = 1
            /\ res[t][1].err = "none"
            /\ calls[t][1] = <<Top(t).c>>)
              => (Top(t).buf = "fallback" /\ Top(t).hasher = res[t][1].h)

C4_Witness ==
    \E t \in Threads :
        /\ TwoSingles(t)
        /\ Second(t) = Wrap(First(t))
        /\ Cardinality(First(t).items) >= 2
        /\ res[t][2].h = <<res[t][1].fp>>

\* C5: discrimination.  Two containers of one type with different entries
\* whose entries' pre-hashes do not collide write different words, so their
\* digests differ unless the output hasher itself collides; and a map
\* entry's pre-hash is taken after its key and then its value were fed into
\* one fresh hasher.
PreInjective(a, b) ==
    \A d, e \in a.items \cup b.items :
        d # e => EntryPreHash(a, d) # EntryPreHash(a, e)

C5_Discrimination ==
    \A t \in Threads :
        /\ (/\ TwoSingles(t)
            /\ First(t).kind = Second(t).kind
            /\ First(t).items # Second(t).items
            /\ PreInjective(First(t), Second(t)))
              => /\ res[t][1].h # res[t][2].h
                 /\ (res[t][1].fp = res[t][2].fp
                       => Finish(res[t][1].h) = Finish(res[t][2].h))
        /\ (/\ pc[t] = "run"
            /\ stack[t] # <<>>
            /\ Top(t).phase = "fin"
            /\ Top(t).c.kind = "map")
              => Top(t).inner =
                   HashInto(HashInto(AHasherDefault, Top(t).ord[Top(t).i].k),
                            Top(t).ord[Top(t).i].v)

C5_Witness ==
    \E t \in Threads :
        /\ TwoSingles(t)
        /\ First(t).kind = "map"
        /\ Second(t).kind = "map"
        /\ {e.k : e \in First(t).items} = {e.k : e \in Second(t).items}
        /\ First(t).items # Second(t).items
        /\ PreInjective(First(t), Second(t))
        /\ res[t][1].fp # res[t][2].fp

\* C6: fold content.  While a computation writes, its hasher holds the
\* words it was handed followed by the first j-1 of the entries' pre-hashes
\* in ascending order; when it has written its whole buffer these are
\* exactly N words, one per entry, equal pre-hashes all kept, and nothing
\* an earlier computation left in the buffer.
Take(w, n) == SubSeq(w, 1, IF n < Len(w) THEN n ELSE Len(w))

Ascending(w) == \A n \in 1..(Len(w) - 1) : w[n] <= w[n + 1]

WrittenWords(t) ==
    SubSeq(Top(t).hasher, Len(EntryHasher(t, Len(stack[t]))) + 1, Len(Top(t).hasher))

C6_FoldContent ==
    \A t \in Threads :
        /\ (pc[t] = "run" /\ stack[t] # <<>> /\ Top(t).phase = "write")
              => Top(t).hasher =
                   EntryHasher(t, Len(stack[t]))
                     \o Take(SortAsc(PreHashes(Top(t).c, Top(t).c.items)),
                             Top(t).j - 1)
        /\ Written(t)
              => /\ Len(WrittenWords(t)) = Cardinality(Top(t).c.items)
                 /\ Ascending(WrittenWords(t))

C6_Witness ==
    \E t \in Threads :
        /\ Written(t)
        /\ Len(res[t]) = 1
        /\ Top(t).buf = "shared"
        /\ res[t][1].h # <<>>
        /\ Cardinality(Top(t).c.items) >= 2
        /\ \E n \in 1..(Len(WrittenWords(t)) - 1) :
              WrittenWords(t)[n] = WrittenWords(t)[n + 1]

\* C7: reentrancy isolation.  Of a thread's active computations exactly the
\* outermost holds the shared buffer, every other one works on its own
\* fallback, and no step changes the buffer of a computation that is
\* waiting for a nested one.
BufferData(t, i) ==
    IF stack[t][i].buf = "shared" THEN BUFFER[BufferOf(t)].data
    ELSE stack[t][i].fallback.data

OutermostHoldsShared ==
    \A t \in Threads :
        /\ \A i \in 1..Len(stack[t]) :
              /\ stack[t][i].buf = "shared" <=> i = 1
              /\ stack[t][i].buf = "fallback" => stack[t][i].fallback.borrowed
        /\ BUFFER[BufferOf(t)].borrowed <=> stack[t] # <<>>

EnclosingUntouched ==
    \A t \in Threads :
        \A i \in 1..Len(stack[t]) :
            (/\ i <= Len(stack'[t])
             /\ (i < Len(stack[t]) \/ i < Len(stack'[t])))
                => BufferData(t, i)' = BufferData(t, i)

C7_ReentrancyIsolation == []OutermostHoldsShared /\ [][EnclosingUntouched]_vars

C7_Witness ==
    \E t \in Threads :
        /\ pc[t] = "run"
        /\ Len(stack[t]) = 2
        /\ Len(BufferData(t, 1)) >= 1
        /\ Len(BufferData(t, 2)) >= 1
        /\ stack[t][2].phase = "sort"

\* C8: guaranteed release.  Whenever no computation is active on a thread
\* its shared buffer is not borrowed, after a normal return and after a
\* panic unwound out of an element's hash alike, so the outermost
\* computation of the next call holds the shared buffer.
C8_GuaranteedRelease ==
    \A t \in Threads :
        /\ stack[t] = <<>> => ~BUFFER[BufferOf(t)].borrowed
        /\ stack[t] # <<>> => stack[t][1].buf = "shared"

C8_Witness ==
    \E t \in Threads :
        /\ Len(res[t]) = 1
        /\ res[t][1].err = "elem"
        /\ pc[t] = "run"
        /\ stack[t] # <<>>
        /\ stack[t][1].buf = "shared"

\* C9: thread confinement.  Under any interleaving of two threads, a
\* thread's buffer changes only in steps of that thread, a thread's
\* outermost computation always gets the thread's shared buffer, and each
\* call ends with the words and digest it produces when run alone.
AloneResult ==
    \A t \in Threads :
        /\ stack[t] # <<>> => stack[t][1].buf = "shared"
        /\ \A n \in 1..Len(res[t]) :
              res[t][n].err = "none"
                 => /\ res[t][n].h = HashInto(AHasherDefault, calls[t][n][1])
                    /\ res[t][n].fp = Finish(HashInto(AHasherDefault, calls[t][n][1]))

OwnBufferOnly ==
    \A t \in Threads :
        (stack'[t] = stack[t] /\ pc'[t] = pc[t]) => BUFFER'[t] = BUFFER[t]

C9_ThreadConfinement == []AloneResult /\ [][OwnBufferOnly]_vars

C9_Witness ==
    \E t, u \in Threads :
        /\ t # u
        /\ stack[t] # <<>>
        /\ stack[u] # <<>>
        /\ stack[t][1].buf = "shared"
        /\ stack[u][1].buf = "shared"
        /\ Len(BUFFER[t].data) >= 1
        /\ Len(BUFFER[u].data) >= 1
        /\ BUFFER[t].data # BUFFER[u].data

\* C10: no length and no delimiter.  A computation over an empty container
\* leaves the hasher as it was handed it; and for two distinct items a, b
\* with pre-hash(a) <= pre-hash(b) the tuples ({a}, {b}) and ({a, b}, {})
\* write the same words and get the same digest.
SplitPair(t) ==
    /\ Len(res[t]) = 2
    /\ res[t][1].err = "none"
    /\ res[t][2].err = "none"
    /\ Len(calls[t][1]) = 2
    /\ Len(calls[t][2]) = 2
    /\ Cardinality(calls[t][1][1].items) = 1
    /\ Cardinality(calls[t][1][2].items) = 1
    /\ calls[t][1][1] # calls[t][1][2]
    /\ calls[t][2][1].items = calls[t][1][1].items \cup calls[t][1][2].items
    /\ calls[t][2][2].items = {}
    /\ res[t][1].h[1] <= res[t][1].h[2]

C10_NoDelimiter ==
    \A t \in Threads :
        /\ (pc[t] = "run" /\ stack[t] # <<>> /\ Top(t).c.items = {})
              => Top(t).hasher = EntryHasher(t, Len(stack[t]))
        /\ SplitPair(t)
              => /\ res[t][1].h = res[t][2].h
                 /\ res[t][1].fp = res[t][2].fp

C10_Witness ==
    \E t \in Threads :
        /\ SplitPair(t)
        /\ res[t][1].h = res[t][2].h
        /\ Len(res[t][1].h) = 2
        /\ res[t][1].h[1] < res[t][1].h[2]
====
